---------------------------- MODULE Spec2Model ----------------------------
(***************************************************************************)
(* A model of the business rules of the config_lead_ignite data layer:     *)
(*   - DiscountService (src/_data/discounts/service.py) and BaseDiscount / *)
(*     GlobalDiscount (src/_data/discounts/models.py);                     *)
(*   - AffiliateProfile's payout date (src/_data/user/affiliate/models.py);*)
(*   - the RBAC system roles (src/_data/user/admin/role.py);               *)
(*   - GlobalTeam / TeamMember / Invitation (src/_data/user/team);         *)
(*   - ThreadService, ParticipantService, MessageService and BaseService   *)
(*     of the chat threads (src/_data/user/ai_chat_threads/services,       *)
(*     src/_data/user/ai/chat_threads/services);                           *)
(*   - GlobalKanban (src/_data/user/kanban/global_kanban.py);              *)
(*   - A2AService (src/_data/user/ai/a2a/service.py).                      *)
(* Each subsystem has its own specification (SpecValidate, SpecApply,      *)
(* SpecRecord, SpecConc, SpecPayout, SpecRole, SpecTeam, SpecChat,         *)
(* SpecKanban, SpecA2A, SpecExecute, SpecService) over the shared          *)
(* variables;                                                              *)
(* a specification leaves the other subsystems' variables at their idle    *)
(* values.                                                                 *)
(*                                                                         *)
(* Conventions.  Python's None is the integer None (-1) where the field is *)
(* a number and the string NoneStr where it is a string.  Instants are     *)
(* timezone-aware UTC datetimes, modelled as integers.  Money is a whole   *)
(* number of currency units; a discounted amount is kept in hundredths of  *)
(* a unit, so that amount * percentage / 100 is exact, as it is for        *)
(* Decimal.                                                                *)
(***************************************************************************)
EXTENDS Integers, Sequences, FiniteSets, TLC

VARIABLES
    disc,          \* the discount the storage adapter holds (static fields)
    used_count,    \* BaseDiscount.used_count of the stored discount
    user_usage,    \* BaseDiscount._user_usage: str(user_id) -> count
    now,           \* datetime.now(timezone.utc)
    call,          \* the arguments of the last service call
    result,        \* what the last service call returned
    applied,       \* history: user_id value -> successful apply_discount calls
    tasks,         \* concurrent apply_discount coroutines
    pay,           \* an AffiliateProfile validation: its inputs and its result
    roleq,         \* a Role.has_permission query and its answer
    members,       \* GlobalTeam.members
    invitations,   \* GlobalTeam.invitations
    threads,       \* ThreadService._storage: the ids of the stored threads
    participants,  \* ThreadService._participant_service._storage
    msg_participants, \* MessageService._participant_service._storage
    messages,      \* MessageService._storage, in order of creation
    chatq,         \* the last chat service call and what it returned
    boards,        \* GlobalKanban.boards: board id -> the board's members
    user_boards_cache, \* GlobalKanban._user_boards_cache: user -> board ids
    kanbanq,       \* the last GlobalKanban call and what it returned
    active_tasks,  \* A2AService.active_tasks: task id -> the stored task
    known_agents,  \* A2AService.known_agents: the ids of the known agents
    exec,          \* the execute_task coroutine: its position and locals
    replies,       \* history: status updates received for the awaited task
    a2aq,          \* the last process_message call and what it did
    storage,       \* BaseService._storage: key -> the stored item
    svcq           \* the last BaseService call and what it returned

discVars == <<disc, used_count, user_usage, now, call, result, applied, tasks>>
payVars  == <<pay>>
roleVars == <<roleq>>
teamVars == <<members, invitations>>
chatVars == <<threads, participants, msg_participants, messages, chatq>>
coreVars == <<discVars, payVars, roleVars, teamVars>>
kanbanVars == <<boards, user_boards_cache, kanbanq>>
a2aVars == <<active_tasks, known_agents, exec, replies, a2aq>>
svcVars == <<storage, svcq>>
restVars == <<chatVars, kanbanVars, a2aVars, svcVars>>
vars == <<coreVars, restVars>>

---------------------------------------------------------------------------
(* Bounds of the model. *)

MaxUses == 2        \* max_uses ranges over None and 1..MaxUses
MaxPerUser == 1     \* max_uses_per_user ranges over None and 1..MaxPerUser
MaxCalls == 3       \* usages recorded in one behaviour
MaxTime == 3        \* the clock ranges over 0..MaxTime
MaxAmount == 2      \* numeric amounts range over -1..MaxAmount
NumTasks == 2       \* concurrent apply_discount coroutines
MaxYear == 2024     \* the current date ranges over 2023-01-01..MaxYear-12-31
MaxInvitations == 2 \* invitations created in one behaviour

None == 0 - 1
NoneStr == "None"

---------------------------------------------------------------------------
(* Values. *)

\* user_id: Optional[Union[str, UUID, int]].  Each value is written
\* "<type>:<value>"; "str:" is the empty string.
UserIds == {"none", "str:", "int:0", "int:7", "str:7", "uuid:a"}

\* bool(user_id): None, the empty string and the integer 0 are falsy.
Truthy(u) == u \notin {"none", "str:", "int:0"}

\* str(user_id): the integer 7 and the string "7" have the same str().
Str(u) ==
    CASE u = "none"   -> "None"
      [] u = "str:"   -> ""
      [] u = "int:0"  -> "0"
      [] u = "int:7"  -> "7"
      [] u = "str:7"  -> "7"
      [] u = "uuid:a" -> "a"

\* amount: Optional[Union[Decimal, float, int, str]].  kind "none" is None,
\* "bad" a value Decimal(str(amount)) rejects ("abc"), "nan" a NaN (Decimal
\* or float), "num" the finite number val.
NumAmount(n) == [kind |-> "num", val |-> n]
AmountNone == [kind |-> "none", val |-> 0]
AmountBad  == [kind |-> "bad", val |-> 0]
AmountNaN  == [kind |-> "nan", val |-> 0]

Codes == {"SAVE", "NOPE"}
Products == {"p1", "p2"}
Categories == {"c1", "c2"}
Affiliates == {"a1", "a2"}

PERCENTAGE == "percentage"
FIXED_AMOUNT == "fixed_amount"

\* validate_discount_value: a percentage discount cannot exceed 100.
MaxPercentage == 100

NoDiscount == [code |-> NoneStr]

---------------------------------------------------------------------------
(* DiscountService.validate_discount_code *)

MsgInvalidCode    == "Invalid discount code"
MsgAmountFormat   == "Invalid amount format"
MsgInactive       == "This code is no longer active"
MsgUsageLimit     == "This code has reached its usage limit"
MsgUserLimit      == "You have already used this code the maximum number of times"
MsgNotYetValid    == "This code is not yet valid"
MsgExpired        == "This code has expired"
MsgMinPurchase    == "Minimum purchase amount required"
MsgAmountCompare  == "Invalid amount or minimum purchase amount"
MsgProduct        == "This code is not valid for the selected product"
MsgCategory       == "This code is not valid for the selected category"
MsgAffiliate      == "This code is not valid for your account"
MsgValid          == "Valid discount code"
Continue          == "continue"

\* storage.get_discount_by_code: the adapter holds one discount.
get_discount_by_code(code) == IF code = disc.code THEN disc ELSE NoDiscount

\* BaseDiscount.get_user_usage_count: _user_usage.get(str(user_id), 0)
get_user_usage_count(usage, key) == usage[key]

\* A variant of ChecksOnDiscount that looks at the usage limit before
\* is_active.
ChecksOnDiscountLimitFirst(d, used, a) ==
    IF d.code = NoneStr THEN MsgInvalidCode
    ELSE IF a.amount.kind = "bad" THEN MsgAmountFormat
    ELSE IF d.max_uses # None /\ used >= d.max_uses THEN MsgUsageLimit
    ELSE IF ~d.is_active THEN MsgInactive
    ELSE Continue

\* A variant of ChecksOnDiscount that lets a code be used once more than
\* max_uses (> for >=).
ChecksOnDiscountOffByOne(d, used, a) ==
    IF d.code = NoneStr THEN MsgInvalidCode
    ELSE IF a.amount.kind = "bad" THEN MsgAmountFormat
    ELSE IF ~d.is_active THEN MsgInactive
    ELSE IF d.max_uses # None /\ used > d.max_uses THEN MsgUsageLimit
    ELSE Continue

\* Lines 44-61: the lookup, the amount conversion, is_active, max_uses.
\* d.used_count is read from the object the lookup returned.
ChecksOnDiscount(d, used, a) ==
    IF d.code = NoneStr THEN MsgInvalidCode
    ELSE IF a.amount.kind = "bad" THEN MsgAmountFormat
    ELSE IF ~d.is_active THEN MsgInactive
    ELSE IF d.max_uses # None /\ used >= d.max_uses THEN MsgUsageLimit
    ELSE Continue

\* Line 64: whether validate awaits _get_user_usage.
NeedsUserUsage(d, a) == Truthy(a.user_id) /\ d.max_uses_per_user # None

\* Lines 64-67: the per-user limit.
PerUserCheck(d, usage, a) ==
    IF NeedsUserUsage(d, a)
       /\ get_user_usage_count(usage, Str(a.user_id)) >= d.max_uses_per_user
    THEN MsgUserLimit
    ELSE Continue

\* Lines 90-95: allowed_products, then excluded_products.
ProductCheck(d, a) ==
    IF d.allowed_products # {}
       /\ a.product_id # NoneStr /\ a.product_id \notin d.allowed_products
    THEN MsgProduct
    ELSE IF a.product_id \in d.excluded_products THEN MsgProduct
    ELSE Continue

\* Lines 98-103: allowed_categories, then excluded_categories.
CategoryCheck(d, a) ==
    IF d.allowed_categories # {}
       /\ (a.category_id = NoneStr \/ a.category_id \notin d.allowed_categories)
    THEN MsgCategory
    ELSE IF a.category_id \in d.excluded_categories THEN MsgCategory
    ELSE Continue

\* Lines 70-110: the date window, the minimum purchase, the scoping.
\* Comparing a NaN amount raises InvalidOperation, which line 86 catches.
ChecksAfterUsage(d, t, a) ==
    IF t < d.start_date THEN MsgNotYetValid
    ELSE IF d.end_date # None /\ t > d.end_date THEN MsgExpired
    ELSE IF a.amount.kind = "nan" /\ d.min_purchase_amount # None
         THEN MsgAmountCompare
    ELSE IF a.amount.kind = "num" /\ d.min_purchase_amount # None
            /\ a.amount.val < d.min_purchase_amount
         THEN MsgMinPurchase
    ELSE IF ProductCheck(d, a) # Continue THEN ProductCheck(d, a)
    ELSE IF CategoryCheck(d, a) # Continue THEN CategoryCheck(d, a)
    ELSE IF d.affiliate_id # NoneStr
            /\ (a.affiliate_id = NoneStr \/ a.affiliate_id # d.affiliate_id)
         THEN MsgAffiliate
    ELSE MsgValid

\* The message validate_discount_code returns.
ValidateMessage(d, used, usage, t, a) ==
    IF ChecksOnDiscount(d, used, a) # Continue THEN ChecksOnDiscount(d, used, a)
    ELSE IF PerUserCheck(d, usage, a) # Continue THEN PerUserCheck(d, usage, a)
    ELSE ChecksAfterUsage(d, t, a)

\* The tuple (is_valid, discount, message); found says discount is not None.
validate_discount_code(d, used, usage, t, a) ==
    LET m == ValidateMessage(d, used, usage, t, a)
    IN  [valid |-> m = MsgValid, found |-> d.code # NoneStr, msg |-> m]

---------------------------------------------------------------------------
(* Discounts and idle values. *)

Limits(max) == {None} \cup (1..max)

\* A discount that restricts nothing.  A discount without the attribute
\* allowed_products (a BaseDiscount) or affiliate_id (a GlobalDiscount)
\* behaves as one whose list is empty, respectively whose affiliate_id is
\* None (hasattr, service.py lines 90-106).
Unrestricted ==
    [code |-> "SAVE",
     is_active |-> TRUE,
     max_uses |-> None,
     max_uses_per_user |-> None,
     start_date |-> 0,
     end_date |-> None,
     min_purchase_amount |-> None,
     discount_type |-> PERCENTAGE,
     discount_value |-> 50,
     allowed_products |-> {},
     excluded_products |-> {},
     allowed_categories |-> {},
     excluded_categories |-> {},
     affiliate_id |-> NoneStr]

\* The usage limits, the date window and the minimum purchase all set.
Limited(d) ==
    [d EXCEPT !.max_uses = MaxUses, !.max_uses_per_user = MaxPerUser,
              !.start_date = 1, !.end_date = 2, !.min_purchase_amount = 2]

\* Every scoping attribute set.
Scoped(d) ==
    [d EXCEPT !.allowed_products = {"p1"}, !.excluded_products = {"p2"},
              !.allowed_categories = {"c1"}, !.excluded_categories = {"c2"},
              !.affiliate_id = "a1"]

NoCall == [op |-> "none"]
NoResult == [op |-> "none"]
NoTasks == <<>>
UsageKeys == {Str(u) : u \in {v \in UserIds : Truthy(v)}}
ZeroUsage == [k \in UsageKeys |-> 0]
ZeroApplied == [u \in UserIds |-> 0]
IdlePay == [op |-> "none"]
IdleRole == [op |-> "none"]

DiscIdle ==
    /\ disc = Unrestricted /\ used_count = 0 /\ user_usage = ZeroUsage
    /\ now = 0 /\ call = NoCall /\ result = NoResult
    /\ applied = ZeroApplied /\ tasks = NoTasks
PayIdle == pay = IdlePay
RoleIdle == roleq = IdleRole
TeamIdle == members = <<>> /\ invitations = <<>>
IdleChat == [op |-> "none"]
ChatIdle ==
    /\ threads = {} /\ participants = {} /\ msg_participants = {}
    /\ messages = <<>> /\ chatq = IdleChat
CoreIdle == DiscIdle /\ PayIdle /\ RoleIdle /\ TeamIdle
EmptyDict == [k \in {} |-> {}]
IdleKanban == [op |-> "none"]
KanbanIdle ==
    boards = EmptyDict /\ user_boards_cache = EmptyDict /\ kanbanq = IdleKanban
IdleExec == [pc |-> "idle"]
IdleA2A == [op |-> "none"]
A2AIdle ==
    /\ active_tasks = EmptyDict /\ known_agents = {} /\ exec = IdleExec
    /\ replies = {} /\ a2aq = IdleA2A
IdleSvc == [op |-> "none"]
SvcIdle == storage = EmptyDict /\ svcq = IdleSvc
RestIdle == ChatIdle /\ KanbanIdle /\ A2AIdle /\ SvcIdle

---------------------------------------------------------------------------
(* SpecValidate: validate_discount_code as a function of the stored        *)
(* discount, the usage the storage reports, the clock and the arguments.   *)

ValidateDiscounts ==
    {[d EXCEPT !.is_active = act] :
        act \in BOOLEAN,
        d \in {Unrestricted, Limited(Unrestricted), Scoped(Unrestricted),
               Scoped(Limited(Unrestricted))}}

ValidateUsers == {"none", "int:0", "int:7"}

ValidateArgs ==
    [code : Codes,
     user_id : ValidateUsers,
     amount : {AmountNone, AmountBad, AmountNaN, NumAmount(1), NumAmount(MaxAmount)},
     product_id : {NoneStr} \cup Products,
     category_id : {NoneStr} \cup Categories,
     affiliate_id : {NoneStr} \cup Affiliates]

InitValidate ==
    /\ disc \in ValidateDiscounts
    /\ used_count \in 0..MaxUses
    /\ user_usage \in {u \in [UsageKeys -> 0..MaxPerUser] :
                          \A k \in UsageKeys : k # "7" => u[k] = 0}
    /\ now \in 0..MaxTime
    /\ call = NoCall
    /\ result = NoResult
    /\ applied = ZeroApplied
    /\ tasks = NoTasks
    /\ PayIdle /\ RoleIdle /\ TeamIdle /\ RestIdle

\* One call of validate_discount_code(code, product_id=, category_id=,
\* affiliate_id=, user_id=, amount=).
Validate(a) ==
    /\ call = NoCall
    /\ call' = [op |-> "validate", args |-> a]
    /\ result' = validate_discount_code(get_discount_by_code(a.code),
                                         used_count, user_usage, now, a)
    /\ UNCHANGED <<disc, used_count, user_usage, now, applied, tasks>>
    /\ UNCHANGED <<payVars, roleVars, teamVars, restVars>>

NextValidate == \E a \in ValidateArgs : Validate(a)

SpecValidate == InitValidate /\ [][NextValidate]_vars

---------------------------------------------------------------------------
(* BaseDiscount.record_usage and DiscountService.apply_discount *)

MsgApplyAmountFormat == "Invalid amount format: ..."
MsgApplyError        == "Error applying discount: ..."
MsgApplied           == "Discount applied successfully"

Min(x, y) == IF x <= y THEN x ELSE y
Max(x, y) == IF x >= y THEN x ELSE y

\* A variant of record_usage that counts a user's first usage only.
record_usage_once(used, usage, u) ==
    IF Truthy(u) /\ get_user_usage_count(usage, Str(u)) > 0
    THEN [used_count |-> used, user_usage |-> usage]
    ELSE [used_count |-> used + 1,
          user_usage |-> IF Truthy(u)
                         THEN [usage EXCEPT ![Str(u)] = 1]
                         ELSE usage]

\* BaseDiscount.record_usage(user_id): used_count += 1 and, for a truthy
\* user_id, _user_usage[str(user_id)] += 1.  The counts are passed and
\* returned as [used_count, user_usage].
record_usage(used, usage, u) ==
    [used_count |-> used + 1,
     user_usage |-> IF Truthy(u)
                    THEN [usage EXCEPT ![Str(u)] =
                              get_user_usage_count(usage, Str(u)) + 1]
                    ELSE usage]

\* DiscountService._record_discount_usage(discount, user_id): the storage
\* adapter's record_usage(code, user_id), or without an adapter
\* discount.record_usage(user_id).  A faithful adapter counts as the
\* discount itself does.  apply_discount passes str(user_id) for a truthy
\* user_id and None otherwise, which record_usage treats as it treats
\* user_id itself.
record_discount_usage(used, usage, u) == record_usage(used, usage, u)

\* A variant of DiscountedAmount that subtracts a percentage as if it were
\* a fixed amount.
DiscountedAmountNoPercent(d, amt) ==
    Max(0, 100 * (amt - Min(d.discount_value, amt)))

\* Lines 148-156, in hundredths of a unit: the amount less the discount,
\* floored at zero.
DiscountedAmount(d, amt) ==
    LET new_amount ==
            IF d.discount_type = PERCENTAGE
            THEN 100 * amt - amt * d.discount_value
            ELSE 100 * (amt - Min(d.discount_value, amt))
    IN  Max(0, new_amount)

\* Lines 146-164 once validation has passed: arithmetic on a NaN amount
\* raises InvalidOperation (max(Decimal('0'), NaN), min(value, NaN)), which
\* the except clause turns into a failure before any usage is recorded.
ApplyValidated(d, a) ==
    IF a.amount.kind = "nan"
    THEN [success |-> FALSE, msg |-> MsgApplyError, amount_kind |-> "nan",
          amount100 |-> 0]
    ELSE [success |-> TRUE, msg |-> MsgApplied, amount_kind |-> "num",
          amount100 |-> DiscountedAmount(d, a.amount.val)]

\* What apply_discount returns when it fails before or in validation:
\* Decimal('0') for an amount that does not parse, else the amount itself.
ApplyRejected(a, m) ==
    [success |-> FALSE, msg |-> m,
     amount_kind |-> IF a.amount.kind = "nan" THEN "nan" ELSE "num",
     amount100 |-> IF a.amount.kind = "num" THEN 100 * a.amount.val ELSE 0]

\* Lines 132-136: Decimal(str(amount)) fails for None and for "abc".
AmountParses(a) == a.amount.kind \in {"num", "nan"}

\* apply_discount run to completion, as (success, amount, message).
apply_discount(d, used, usage, t, a) ==
    IF ~AmountParses(a) THEN ApplyRejected(a, MsgApplyAmountFormat)
    ELSE LET v == validate_discount_code(d, used, usage, t, a)
         IN  IF ~v.valid THEN ApplyRejected(a, v.msg)
             ELSE ApplyValidated(d, a)

---------------------------------------------------------------------------
(* SpecApply: apply_discount calls executed one at a time against a        *)
(* storage adapter that records usage faithfully.                          *)

DiscountValues == {<<PERCENTAGE, 50>>, <<PERCENTAGE, MaxPercentage>>,
                   <<FIXED_AMOUNT, 1>>}

ApplyDiscounts ==
    {[Unrestricted EXCEPT !.is_active = act, !.max_uses = mu,
                          !.max_uses_per_user = mpu,
                          !.discount_type = tv[1], !.discount_value = tv[2]] :
        act \in BOOLEAN, mu \in Limits(MaxUses), mpu \in Limits(MaxPerUser),
        tv \in DiscountValues}

ApplyUsers == {"none", "int:0", "int:7", "str:7"}

ApplyAmounts == {AmountBad, AmountNaN} \cup {NumAmount(n) : n \in (0 - 1)..MaxAmount}

ApplyArgs ==
    [code : Codes,
     user_id : ApplyUsers,
     amount : ApplyAmounts,
     product_id : {NoneStr},
     category_id : {NoneStr},
     affiliate_id : {NoneStr}]

\* The stored discount is fresh: used_count has its default, 0.
InitApply ==
    /\ disc \in ApplyDiscounts
    /\ used_count = 0
    /\ user_usage = ZeroUsage
    /\ now = 1
    /\ call = NoCall
    /\ result = NoResult
    /\ applied = ZeroApplied
    /\ tasks = NoTasks
    /\ PayIdle /\ RoleIdle /\ TeamIdle /\ RestIdle

\* One call of apply_discount(code, amount, user_id), awaited to its end.
Apply(a) ==
    /\ used_count < MaxCalls
    /\ LET r == apply_discount(get_discount_by_code(a.code), used_count,
                               user_usage, now, a)
           rec == record_discount_usage(used_count, user_usage, a.user_id)
       IN  /\ call' = [op |-> "apply", args |-> a, used_before |-> used_count]
           /\ result' = r
           /\ used_count' = IF r.success THEN rec.used_count ELSE used_count
           /\ user_usage' = IF r.success THEN rec.user_usage ELSE user_usage
           /\ applied' = IF r.success
                         THEN [applied EXCEPT ![a.user_id] = @ + 1]
                         ELSE applied
    /\ UNCHANGED <<disc, now, tasks>>
    /\ UNCHANGED <<payVars, roleVars, teamVars, restVars>>

NextApply == \E a \in ApplyArgs : Apply(a)

SpecApply == InitApply /\ [][NextApply]_vars

RECURSIVE SumOver(_, _)
SumOver(f, S) ==
    IF S = {} THEN 0
    ELSE LET x == CHOOSE y \in S : TRUE IN f[x] + SumOver(f, S \ {x})

\* The number of successful apply_discount calls so far.
TotalApplied == SumOver(applied, UserIds)

---------------------------------------------------------------------------
(* Claims about validate_discount_code (SpecValidate). *)

Validated == call.op = "validate"

\* The checks of validate_discount_code, each by the condition under which
\* it fails for the call in the state.
CheckFails(c) ==
    LET a == call.args
    IN  CASE c = "unknown"       -> a.code # disc.code
          [] c = "amount_format" -> a.amount.kind = "bad"
          [] c = "inactive"      -> ~disc.is_active
          [] c = "total_limit"   -> disc.max_uses # None /\ used_count >= disc.max_uses
          [] c = "user_limit"    -> /\ Truthy(a.user_id)
                                    /\ disc.max_uses_per_user # None
                                    /\ user_usage[Str(a.user_id)] >= disc.max_uses_per_user
          [] c = "not_yet"       -> now < disc.start_date
          [] c = "expired"       -> disc.end_date # None /\ now > disc.end_date
          [] c = "below_minimum" -> /\ a.amount.kind = "num"
                                    /\ disc.min_purchase_amount # None
                                    /\ a.amount.val < disc.min_purchase_amount
          [] c = "minimum"       -> /\ a.amount.kind \in {"num", "nan"}
                                    /\ disc.min_purchase_amount # None
                                    /\ \/ a.amount.kind = "nan"
                                       \/ a.amount.val < disc.min_purchase_amount
          [] c = "product"       -> \/ /\ disc.allowed_products # {}
                                       /\ a.product_id # NoneStr
                                       /\ a.product_id \notin disc.allowed_products
                                    \/ a.product_id \in disc.excluded_products
          [] c = "category"      -> \/ /\ disc.allowed_categories # {}
                                       /\ a.category_id \notin disc.allowed_categories
                                    \/ a.category_id \in disc.excluded_categories
          [] c = "affiliate"     -> /\ disc.affiliate_id # NoneStr
                                    /\ a.affiliate_id # disc.affiliate_id

\* The message a failing check reports.
CheckMessage(c) ==
    CASE c = "unknown"       -> MsgInvalidCode
      [] c = "amount_format" -> MsgAmountFormat
      [] c = "inactive"      -> MsgInactive
      [] c = "total_limit"   -> MsgUsageLimit
      [] c = "user_limit"    -> MsgUserLimit
      [] c = "not_yet"       -> MsgNotYetValid
      [] c = "expired"       -> MsgExpired
      [] c = "below_minimum" -> MsgMinPurchase
      [] c = "minimum"       -> IF call.args.amount.kind = "nan"
                                THEN MsgAmountCompare ELSE MsgMinPurchase
      [] c = "product"       -> MsgProduct
      [] c = "category"      -> MsgCategory
      [] c = "affiliate"     -> MsgAffiliate

\* The order of the checks as the claim lists them.
ClaimedOrder ==
    <<"unknown", "inactive", "total_limit", "user_limit", "not_yet", "expired",
      "below_minimum", "product", "category", "affiliate">>

\* The order with the amount-format check in its place and the minimum
\* purchase check covering an amount that cannot be compared.
CodeOrder ==
    <<"unknown", "amount_format", "inactive", "total_limit", "user_limit",
      "not_yet", "expired", "minimum", "product", "category", "affiliate">>

Failing(order) == {i \in 1..Len(order) : CheckFails(order[i])}

FirstFailing(order) ==
    CHOOSE i \in Failing(order) : \A j \in Failing(order) : i <= j

\* The result is the first failure in `order`, or valid when nothing fails.
ReportsFirstFailure(order) ==
    IF Failing(order) = {}
    THEN result.valid /\ result.found /\ result.msg = MsgValid
    ELSE ~result.valid /\ result.msg = CheckMessage(order[FirstFailing(order)])

\* C1 as stated: validate_discount_code reports the first failing check in
\* the order unknown code, inactive, total usage limit, per-user limit, not
\* yet valid, expired, below minimum purchase, product, category, affiliate
\* scoping, and returns valid exactly when none of these fails.
C1_ClaimedOrder == Validated => ReportsFirstFailure(ClaimedOrder)

\* C1 (amended): the same with the amount-format check ("Invalid amount
\* format") between the unknown-code and the inactive check, and with the
\* minimum-purchase check also failing, with "Invalid amount or minimum
\* purchase amount", for an amount that cannot be compared (NaN).
C1_FirstFailureReported == Validated => ReportsFirstFailure(CodeOrder)

\* A call that fails the inactive, the total-limit, the expiry and the
\* affiliate check at once, and is told about the inactive code.
C1_Witness ==
    /\ Validated
    /\ {"inactive", "total_limit", "expired", "affiliate"}
           \subseteq {CodeOrder[i] : i \in Failing(CodeOrder)}
    /\ ~CheckFails("unknown") /\ ~CheckFails("amount_format")
    /\ result.msg = MsgInactive

\* C6: a valid result for a code with a non-empty allowed_products
\* (allowed_categories) list means the product_id (category_id) is in the
\* list; omitting the identifier does not make the code valid.
C6_AllowListsRestrict ==
    (Validated /\ result.valid) =>
        /\ disc.allowed_products # {} =>
               call.args.product_id \in disc.allowed_products
        /\ disc.allowed_categories # {} =>
               call.args.category_id \in disc.allowed_categories

---------------------------------------------------------------------------
(* Claims about apply_discount, one call at a time (SpecApply). *)

Applied == call.op = "apply"
AppliedCode == Applied /\ call.args.code = disc.code

\* C3 as stated: with max_uses = N at most N calls succeed, used_count
\* never exceeds N, and a call made once used_count = N fails with "This
\* code has reached its usage limit".
C3_UsageLimitMessage ==
    disc.max_uses # None =>
        /\ used_count <= disc.max_uses
        /\ TotalApplied <= disc.max_uses
        /\ (AppliedCode /\ call.used_before = disc.max_uses) =>
               ~result.success /\ result.msg = MsgUsageLimit

\* C3 (amended): with max_uses = N and used_count 0 to begin with, at most
\* N calls succeed and used_count never exceeds N; a call for the code made
\* once used_count = N fails, with "This code has reached its usage limit"
\* when its amount parses as a Decimal and with "Invalid amount format: ..."
\* when it does not.
C3_UsageLimitHolds ==
    disc.max_uses # None =>
        /\ used_count <= disc.max_uses
        /\ TotalApplied <= disc.max_uses
        /\ (AppliedCode /\ call.used_before = disc.max_uses) =>
               /\ ~result.success
               /\ result.msg = IF AmountParses(call.args)
                               THEN MsgUsageLimit ELSE MsgApplyAmountFormat

\* N calls have succeeded and a further call has been refused.
C3_Witness ==
    /\ disc.max_uses = MaxUses
    /\ TotalApplied = MaxUses
    /\ AppliedCode /\ call.used_before = MaxUses
    /\ result.msg = MsgUsageLimit

\* C5: with max_uses_per_user = K every user_id value other than None
\* accumulates at most K successful applications.
C5_PerUserLimit ==
    disc.max_uses_per_user # None =>
        \A u \in UserIds \ {"none"} : applied[u] <= disc.max_uses_per_user

\* The discount apply_discount computes for the call in the state.
ExpectedAmount ==
    LET amt == call.args.amount.val
        off == IF disc.discount_type = PERCENTAGE
               THEN amt * disc.discount_value
               ELSE 100 * (IF disc.discount_value <= amt
                           THEN disc.discount_value ELSE amt)
    IN  IF 100 * amt - off < 0 THEN 0 ELSE 100 * amt - off

\* C8: a successful apply_discount returns amount - amount * value / 100
\* for a percentage and amount - min(value, amount) for a fixed amount,
\* floored at 0; for a non-negative amount the result lies in 0..amount.
C8_DiscountedAmount ==
    (Applied /\ result.success) =>
        /\ result.amount_kind = "num"
        /\ result.amount100 = ExpectedAmount
        /\ call.args.amount.val >= 0 =>
               /\ 0 <= result.amount100
               /\ result.amount100 <= 100 * call.args.amount.val

\* A percentage discount has been applied to a positive amount and has
\* left part of it.
C8_Witness ==
    /\ Applied /\ result.success
    /\ disc.discount_type = PERCENTAGE
    /\ call.args.amount.val > 0
    /\ 0 < result.amount100 /\ result.amount100 < 100 * call.args.amount.val

---------------------------------------------------------------------------
(* SpecRecord: usage recorded directly, by BaseDiscount.record_usage and   *)
(* by DiscountService._record_discount_usage.                              *)

InitRecord ==
    /\ disc \in {Unrestricted, Limited(Unrestricted)}
    /\ used_count = 0
    /\ user_usage = ZeroUsage
    /\ now = 1
    /\ call = NoCall
    /\ result = NoResult
    /\ applied = ZeroApplied
    /\ tasks = NoTasks
    /\ PayIdle /\ RoleIdle /\ TeamIdle /\ RestIdle

\* The bookkeeping of a recording: the call, whether it repeats the call
\* before it (the same operation for the same user), the counts before it.
Recorded(op, u) ==
    /\ call' = [op |-> op, user_id |-> u,
                repeat |-> call.op = op /\ call.user_id = u]
    /\ result' = [op |-> "record", used_before |-> used_count,
                  usage_before |-> user_usage]

\* discount.record_usage(user_id)
RecordUsage(u) ==
    /\ used_count < MaxCalls
    /\ Recorded("record_usage", u)
    /\ used_count' = record_usage(used_count, user_usage, u).used_count
    /\ user_usage' = record_usage(used_count, user_usage, u).user_usage
    /\ UNCHANGED <<disc, now, applied, tasks>>
    /\ UNCHANGED <<payVars, roleVars, teamVars, restVars>>

\* service._record_discount_usage(discount, user_id)
RecordDiscountUsage(u) ==
    /\ used_count < MaxCalls
    /\ Recorded("record_discount_usage", u)
    /\ used_count' = record_discount_usage(used_count, user_usage, u).used_count
    /\ user_usage' = record_discount_usage(used_count, user_usage, u).user_usage
    /\ UNCHANGED <<disc, now, applied, tasks>>
    /\ UNCHANGED <<payVars, roleVars, teamVars, restVars>>

NextRecord ==
    \/ \E u \in UserIds : RecordUsage(u)
    \/ \E u \in UserIds : RecordDiscountUsage(u)

SpecRecord == InitRecord /\ [][NextRecord]_vars

IsRecording == call.op \in {"record_usage", "record_discount_usage"}

\* C2 as stated: recording the usage a second time for the same user
\* leaves used_count and the user's usage count as the first recording
\* left them.
C2_RecordingIdempotent ==
    (IsRecording /\ call.repeat) =>
        /\ used_count = result.used_before
        /\ user_usage = result.usage_before

\* C2 (amended): recording is cumulative, not idempotent: every recording,
\* a repeated one included, adds one to used_count and, for a truthy
\* user_id, one to that user's usage count, and changes no other count.
C2_RecordingCumulative ==
    IsRecording =>
        /\ used_count = result.used_before + 1
        /\ \A k \in UsageKeys :
               user_usage[k] = result.usage_before[k] +
                   (IF Truthy(call.user_id) /\ k = Str(call.user_id)
                    THEN 1 ELSE 0)

\* The same user's usage has been recorded twice in a row.
C2_Witness ==
    /\ IsRecording /\ call.repeat
    /\ call.user_id = "int:7"
    /\ used_count = 2 /\ user_usage["7"] = 2

---------------------------------------------------------------------------
(* SpecConc: apply_discount coroutines of one event loop.  A coroutine     *)
(* runs without interruption from one await of the storage adapter to the  *)
(* next (get_discount_by_code, get_user_usage, record_usage); each step    *)
(* below is the storage operation together with the code that follows it   *)
(* up to the next await.                                                   *)

TaskIds == 1..NumTasks

ConcDiscounts ==
    {[Unrestricted EXCEPT !.max_uses = mu, !.max_uses_per_user = mpu] :
        mu \in Limits(MaxUses), mpu \in Limits(MaxPerUser)}

ConcArgs ==
    [code : {"SAVE"},
     user_id : {"none", "int:7", "str:7"},
     amount : {AmountBad, NumAmount(1)},
     product_id : {NoneStr},
     category_id : {NoneStr},
     affiliate_id : {NoneStr}]

IdleTask == [pc |-> "idle"]

InitConc ==
    /\ disc \in ConcDiscounts
    /\ used_count = 0
    /\ user_usage = ZeroUsage
    /\ now = 1
    /\ call = NoCall
    /\ result = NoResult
    /\ applied = ZeroApplied
    /\ tasks = [t \in TaskIds |-> IdleTask]
    /\ PayIdle /\ RoleIdle /\ TeamIdle /\ RestIdle

Returned(a, r) == [pc |-> "done", args |-> a, out |-> r]

\* Lines 70-161 for a call whose usage checks have passed: the remaining
\* checks, the arithmetic, and then the await of _record_discount_usage.
AfterUsageChecks(d, a) ==
    LET m == ChecksAfterUsage(d, now, a)
    IN  IF m # MsgValid THEN Returned(a, ApplyRejected(a, m))
        ELSE IF ~ApplyValidated(d, a).success
             THEN Returned(a, ApplyValidated(d, a))
             ELSE [pc |-> "record_usage", args |-> a,
                   out |-> ApplyValidated(d, a)]

\* apply_discount is called: the amount is converted and validation awaits
\* _get_discount_by_code.
StartApply(t, a) ==
    /\ tasks[t].pc = "idle"
    /\ tasks' = [tasks EXCEPT ![t] =
                    IF ~AmountParses(a)
                    THEN Returned(a, ApplyRejected(a, MsgApplyAmountFormat))
                    ELSE [pc |-> "get_discount", args |-> a]]
    /\ UNCHANGED <<disc, used_count, user_usage, now, call, result, applied>>
    /\ UNCHANGED <<payVars, roleVars, teamVars, restVars>>

\* get_discount_by_code returns; is_active and max_uses are checked against
\* the used_count it returned.
GetDiscount(t) ==
    /\ tasks[t].pc = "get_discount"
    /\ LET a == tasks[t].args
           d == get_discount_by_code(a.code)
           m == ChecksOnDiscount(d, used_count, a)
       IN  tasks' = [tasks EXCEPT ![t] =
                        IF m # Continue THEN Returned(a, ApplyRejected(a, m))
                        ELSE IF NeedsUserUsage(d, a)
                             THEN [pc |-> "get_user_usage", args |-> a]
                             ELSE AfterUsageChecks(d, a)]
    /\ UNCHANGED <<disc, used_count, user_usage, now, call, result, applied>>
    /\ UNCHANGED <<payVars, roleVars, teamVars, restVars>>

\* get_user_usage returns; the per-user limit is checked against it.
GetUserUsage(t) ==
    /\ tasks[t].pc = "get_user_usage"
    /\ LET a == tasks[t].args
           m == PerUserCheck(disc, user_usage, a)
       IN  tasks' = [tasks EXCEPT ![t] =
                        IF m # Continue THEN Returned(a, ApplyRejected(a, m))
                        ELSE AfterUsageChecks(disc, a)]
    /\ UNCHANGED <<disc, used_count, user_usage, now, call, result, applied>>
    /\ UNCHANGED <<payVars, roleVars, teamVars, restVars>>

\* record_usage returns; apply_discount reports success.
RecordTaskUsage(t) ==
    /\ tasks[t].pc = "record_usage"
    /\ LET a == tasks[t].args
           rec == record_discount_usage(used_count, user_usage, a.user_id)
       IN  /\ used_count' = rec.used_count
           /\ user_usage' = rec.user_usage
           /\ applied' = [applied EXCEPT ![a.user_id] = @ + 1]
           /\ tasks' = [tasks EXCEPT ![t] = Returned(a, tasks[t].out)]
    /\ UNCHANGED <<disc, now, call, result>>
    /\ UNCHANGED <<payVars, roleVars, teamVars, restVars>>

NextConc ==
    \E t \in TaskIds :
        \/ \E a \in ConcArgs : StartApply(t, a)
        \/ GetDiscount(t)
        \/ GetUserUsage(t)
        \/ RecordTaskUsage(t)

SpecConc == InitConc /\ [][NextConc]_vars

\* C4: however concurrent apply_discount calls interleave at the awaited
\* storage operations, the successful applications of a code never exceed
\* its max_uses.
C4_ConcurrentUsageLimit ==
    disc.max_uses # None => TotalApplied <= disc.max_uses

---------------------------------------------------------------------------
(* AffiliateProfile's root validator calculate_lifetime_earnings.  A       *)
(* datetime is [year, month, day]; replace() and timedelta keep the time   *)
(* of day, which is left out.                                              *)

WEEKLY == "weekly"
BIWEEKLY == "biweekly"
MONTHLY == "monthly"
QUARTERLY == "quarterly"
PayoutSchedules == {WEEKLY, BIWEEKLY, MONTHLY, QUARTERLY}

IsLeap(y) == (y % 4 = 0 /\ y % 100 # 0) \/ y % 400 = 0

DaysInMonth(y, m) ==
    IF m = 2 THEN (IF IsLeap(y) THEN 29 ELSE 28)
    ELSE IF m \in {4, 6, 9, 11} THEN 30 ELSE 31

Date(y, m, d) == [year |-> y, month |-> m, day |-> d]
NoDate == Date(0, 0, 0)

ValidDate(dt) ==
    dt.month \in 1..12 /\ dt.day \in 1..DaysInMonth(dt.year, dt.month)

FirstOfNextMonth(dt) ==
    IF dt.month < 12 THEN Date(dt.year, dt.month + 1, 1)
    ELSE Date(dt.year + 1, 1, 1)

\* datetime + timedelta(days=n), n >= 0, a month at a time
RECURSIVE AddDays(_, _)
AddDays(dt, n) ==
    IF dt.day + n <= DaysInMonth(dt.year, dt.month)
    THEN Date(dt.year, dt.month, dt.day + n)
    ELSE AddDays(FirstOfNextMonth(dt),
                 n - (DaysInMonth(dt.year, dt.month) - dt.day + 1))

\* timedelta(weeks=w), in days
Weeks(w) == 7 * w

\* A variant of the monthly branch that never moves to the next year.
NextMonthDateSameYear(dt) == Date(dt.year, (dt.month % 12) + 1, 1)

\* Lines 227-233: now.replace(month=next_month, day=1, year=year), and on a
\* ValueError now.replace(month=next_month, day=28, year=year).
NextMonthDate(dt) ==
    LET next_month == (dt.month % 12) + 1
        year == dt.year + (IF next_month = 1 THEN 1 ELSE 0)
    IN  IF ValidDate(Date(year, next_month, 1))
        THEN Date(year, next_month, 1)
        ELSE Date(year, next_month, 28)

\* Lines 215-237: the next payout date for a profile that has none.
ComputeNextPayout(dt, schedule) ==
    IF schedule = WEEKLY THEN AddDays(dt, Weeks(1))
    ELSE IF schedule = BIWEEKLY THEN AddDays(dt, Weeks(2))
    ELSE IF schedule = QUARTERLY THEN AddDays(dt, Weeks(13))
    ELSE NextMonthDate(dt)

\* The root validator: lifetime_earnings, and next_payout_date when the
\* profile comes without one.
calculate_lifetime_earnings(values) ==
    [values EXCEPT
        !.lifetime_earnings = values.total_commissions + values.pending_payout,
        !.next_payout_date =
            IF values.next_payout_date = NoDate
            THEN ComputeNextPayout(values.now, values.payout_schedule)
            ELSE values.next_payout_date]

Years == 2023..MaxYear

Dates == {dt \in [year : Years, month : 1..12, day : 1..31] : ValidDate(dt)}

\* The values a profile is built from, and datetime.utcnow() at that time.
ProfileValues ==
    [now : Dates,
     payout_schedule : PayoutSchedules,
     next_payout_date : {NoDate, Date(2023, 7, 31)},
     total_commissions : {0, 2},
     pending_payout : {0, 1},
     lifetime_earnings : {0}]

InitPayout ==
    /\ DiscIdle /\ RoleIdle /\ TeamIdle /\ RestIdle
    /\ \E v \in ProfileValues : pay = [op |-> "input", given |-> v, values |-> v]

\* AffiliateProfile(**values)
ValidateProfile ==
    /\ pay.op = "input"
    /\ pay' = [op |-> "validated", given |-> pay.given,
               values |-> calculate_lifetime_earnings(pay.given)]
    /\ UNCHANGED <<discVars, roleVars, teamVars, restVars>>

NextPayout == ValidateProfile

SpecPayout == InitPayout /\ [][NextPayout]_vars

\* C7: for a MONTHLY schedule and no next_payout_date the computed date
\* lies in the month after the current one and keeps the current day of
\* the month, clamped to the end of that month.
C7_MonthEndClamping ==
    (/\ pay.op = "validated"
     /\ pay.given.payout_schedule = MONTHLY
     /\ pay.given.next_payout_date = NoDate) =>
        LET cur == pay.given.now
            nxt == pay.values.next_payout_date
        IN  /\ nxt.month = (cur.month % 12) + 1
            /\ nxt.year = cur.year + (IF cur.month = 12 THEN 1 ELSE 0)
            /\ nxt.day = Min(cur.day, DaysInMonth(nxt.year, nxt.month))

\* The number of days from 1 January of year 1 of the calendar's 400-year
\* cycle to the date, counted from whole years and whole months.
RECURSIVE DaysBeforeMonth(_, _)
DaysBeforeMonth(y, m) ==
    IF m = 1 THEN 0 ELSE DaysBeforeMonth(y, m - 1) + DaysInMonth(y, m - 1)

DaysBeforeYear(y) ==
    LET p == y - 1 IN 365 * p + (p \div 4) - (p \div 100) + (p \div 400)

Ordinal(dt) == DaysBeforeYear(dt.year) + DaysBeforeMonth(dt.year, dt.month) + dt.day

ExpectedDays(schedule) ==
    IF schedule = WEEKLY THEN 7 ELSE IF schedule = BIWEEKLY THEN 14 ELSE 91

\* C14: a profile validated without a next_payout_date gets the date 7, 14
\* and 91 days after the current one for WEEKLY, BIWEEKLY and QUARTERLY,
\* and for MONTHLY a date in month (current month mod 12) + 1, in the next
\* year exactly when the current month is December; the date is a valid
\* calendar date later than the current one; a supplied next_payout_date
\* is kept unchanged.
C14_ScheduleRollover ==
    pay.op = "validated" =>
        LET cur == pay.given.now
            schedule == pay.given.payout_schedule
            nxt == pay.values.next_payout_date
        IN  IF pay.given.next_payout_date # NoDate
            THEN nxt = pay.given.next_payout_date
            ELSE /\ ValidDate(nxt)
                 /\ Ordinal(nxt) > Ordinal(cur)
                 /\ schedule # MONTHLY =>
                        Ordinal(nxt) - Ordinal(cur) = ExpectedDays(schedule)
                 /\ schedule = MONTHLY =>
                        /\ nxt.month = (cur.month % 12) + 1
                        /\ nxt.year = cur.year + (IF cur.month = 12 THEN 1 ELSE 0)

\* A profile validated in December with a MONTHLY schedule and no date.
C14_Witness ==
    /\ pay.op = "validated"
    /\ pay.given.next_payout_date = NoDate
    /\ pay.given.payout_schedule = MONTHLY
    /\ pay.given.now.month = 12
    /\ pay.values.next_payout_date = Date(pay.given.now.year + 1, 1, 1)

---------------------------------------------------------------------------
(* Role.has_permission over SYSTEM_ROLES. *)

USER == "user"
SUPPORT == "support"
ADMIN == "admin"
SUPER_ADMIN == "super_admin"
RoleNames == {USER, SUPPORT, ADMIN, SUPER_ADMIN}

\* SYSTEM_ROLES[name].permissions
SYSTEM_ROLES(name) ==
    CASE name = USER ->
             {"self:read", "self:update", "content:create", "content:read:own"}
      [] name = SUPPORT ->
             {"user:read", "user:credit:adjust", "user:provisioning:retry",
              "audit_log:read", "event_log:read"}
      [] name = ADMIN ->
             {"user:create", "user:read", "user:update", "user:delete",
              "user:impersonate", "user:role:assign", "audit_log:read",
              "event_log:read", "system:settings:update"}
      [] name = SUPER_ADMIN -> {"*"}

\* Role.has_permission: permission in self.permissions
has_permission(name, permission) == permission \in SYSTEM_ROLES(name)

\* The permission strings asked about: every one a system role lists, and
\* one that none lists.
Permissions ==
    UNION {SYSTEM_ROLES(r) : r \in RoleNames} \cup {"billing:read"}

InitRole ==
    /\ DiscIdle /\ PayIdle /\ TeamIdle /\ RestIdle
    /\ \E r \in RoleNames, p \in Permissions :
           roleq = [op |-> "input", role |-> r, permission |-> p]

\* SYSTEM_ROLES[role].has_permission(permission)
HasPermission ==
    /\ roleq.op = "input"
    /\ roleq' = [op |-> "answered", role |-> roleq.role,
                 permission |-> roleq.permission,
                 granted |-> has_permission(roleq.role, roleq.permission)]
    /\ UNCHANGED <<discVars, payVars, teamVars, restVars>>

NextRole == HasPermission

SpecRole == InitRole /\ [][NextRole]_vars

\* C9: SUPER_ADMIN has every permission, those of USER, SUPPORT and ADMIN
\* among them.
C9_SuperAdminHasAll ==
    (roleq.op = "answered" /\ roleq.role = SUPER_ADMIN) => roleq.granted

---------------------------------------------------------------------------
(* GlobalTeam, TeamMember and Invitation.  members is the list of          *)
(* [user_id, role]; invitations the list of [token, email, role, status,   *)
(* expired], where expired says that utcnow() has passed expires_at.       *)

OWNER == "owner"
MEMBER == "member"
GUEST == "guest"
TeamRoles == {OWNER, ADMIN, MEMBER, GUEST}
InvitationRoles == {ADMIN, MEMBER, GUEST}

PENDING == "pending"
ACCEPTED == "accepted"
REVOKED == "revoked"

TeamUsers == {"u1", "u2"}
Emails == {"a@x.io", "b@x.io"}

Indices(seq) == 1..Len(seq)

IsMember(u) == \E i \in Indices(members) : members[i].user_id = u

\* TeamMember.validate_role: the validator returns the role as given; for
\* OWNER it holds a comment in place of a check.
validate_role(role) == role

\* add_member(user_id, role) on the list ms: None for a user who is a
\* member already, else the new member is appended.
add_member(ms, u, role) ==
    IF \E i \in Indices(ms) : ms[i].user_id = u
    THEN ms
    ELSE Append(ms, [user_id |-> u, role |-> validate_role(role)])

InitTeam ==
    /\ DiscIdle /\ PayIdle /\ RoleIdle /\ RestIdle
    /\ members = <<>>
    /\ invitations = <<>>

\* team.add_member(user_id, role)
AddMember(u, role) ==
    /\ members' = add_member(members, u, role)
    /\ UNCHANGED invitations
    /\ UNCHANGED <<discVars, payVars, roleVars, restVars>>

\* team.remove_member(user_id)
RemoveMember(u) ==
    /\ members' = SelectSeq(members, LAMBDA m : m.user_id # u)
    /\ UNCHANGED invitations
    /\ UNCHANGED <<discVars, payVars, roleVars, restVars>>

\* team.update_member_role(user_id, new_role)
UpdateMemberRole(u, new_role) ==
    /\ members' = [i \in Indices(members) |->
                      IF members[i].user_id = u /\ members[i].role # new_role
                      THEN [members[i] EXCEPT !.role = new_role]
                      ELSE members[i]]
    /\ UNCHANGED invitations
    /\ UNCHANGED <<discVars, payVars, roleVars, restVars>>

\* team.get_member(user_id).promote_to_admin()
PromoteToAdmin(u) ==
    /\ IsMember(u)
    /\ members' = [i \in Indices(members) |->
                      IF members[i].user_id = u /\ members[i].role # OWNER
                      THEN [members[i] EXCEPT !.role = ADMIN]
                      ELSE members[i]]
    /\ UNCHANGED invitations
    /\ UNCHANGED <<discVars, payVars, roleVars, restVars>>

\* team.get_member(user_id).demote_to_member()
DemoteToMember(u) ==
    /\ IsMember(u)
    /\ members' = [i \in Indices(members) |->
                      IF members[i].user_id = u /\ members[i].role = ADMIN
                      THEN [members[i] EXCEPT !.role = MEMBER]
                      ELSE members[i]]
    /\ UNCHANGED invitations
    /\ UNCHANGED <<discVars, payVars, roleVars, restVars>>

\* team.create_invitation(email, role, invited_by): None while a pending
\* invitation for the email exists.  The token of the n-th invitation is n.
CreateInvitation(email, role) ==
    /\ Len(invitations) < MaxInvitations
    /\ invitations' =
           IF \E i \in Indices(invitations) :
                  invitations[i].email = email /\ invitations[i].status = PENDING
           THEN invitations
           ELSE Append(invitations,
                       [token |-> Len(invitations) + 1, email |-> email,
                        role |-> role, status |-> PENDING, expired |-> FALSE])
    /\ UNCHANGED members
    /\ UNCHANGED <<discVars, payVars, roleVars, restVars>>

\* Time passes beyond an invitation's expires_at.
ExpireInvitation(i) ==
    /\ i \in Indices(invitations)
    /\ ~invitations[i].expired
    /\ invitations' = [invitations EXCEPT ![i].expired = TRUE]
    /\ UNCHANGED members
    /\ UNCHANGED <<discVars, payVars, roleVars, restVars>>

\* invitation.revoke()
RevokeInvitation(i) ==
    /\ i \in Indices(invitations)
    /\ invitations[i].status = PENDING
    /\ invitations' = [invitations EXCEPT ![i].status = REVOKED]
    /\ UNCHANGED members
    /\ UNCHANGED <<discVars, payVars, roleVars, restVars>>

\* Invitation.accept(): a pending invitation that has not expired.
CanAccept(inv) == inv.status = PENDING /\ ~inv.expired

\* team.accept_invitation(token, user_id): the first pending invitation
\* with the token that accept() accepts adds the user with its role.
AcceptInvitation(token, u) ==
    /\ LET hits == {i \in Indices(invitations) :
                       invitations[i].token = token /\ CanAccept(invitations[i])}
       IN  IF hits = {}
           THEN UNCHANGED <<members, invitations>>
           ELSE LET i == CHOOSE j \in hits : \A k \in hits : j <= k
                IN  /\ invitations' = [invitations EXCEPT ![i].status = ACCEPTED]
                    /\ members' = add_member(members, u, invitations[i].role)
    /\ UNCHANGED <<discVars, payVars, roleVars, restVars>>

NextTeam ==
    \/ \E u \in TeamUsers, r \in TeamRoles : AddMember(u, r)
    \/ \E u \in TeamUsers : RemoveMember(u)
    \/ \E u \in TeamUsers, r \in TeamRoles : UpdateMemberRole(u, r)
    \/ \E u \in TeamUsers : PromoteToAdmin(u)
    \/ \E u \in TeamUsers : DemoteToMember(u)
    \/ \E e \in Emails, r \in InvitationRoles : CreateInvitation(e, r)
    \/ \E i \in 1..MaxInvitations : ExpireInvitation(i)
    \/ \E i \in 1..MaxInvitations : RevokeInvitation(i)
    \/ \E t \in 1..MaxInvitations, u \in TeamUsers : AcceptInvitation(t, u)

SpecTeam == InitTeam /\ [][NextTeam]_vars

Owners == {i \in Indices(members) : members[i].role = OWNER}

\* C10: after any sequence of add_member, update_member_role,
\* accept_invitation, remove_member, promote_to_admin and demote_to_member
\* at most one member of the team has the role OWNER.
C10_SingleOwner == Cardinality(Owners) <= 1

---------------------------------------------------------------------------
(* SpecChat: ThreadService, its ParticipantService and a MessageService    *)
(* built on that ThreadService.  A thread is its id; a participant is a    *)
(* record of ParticipantService's storage; a message is the record of its  *)
(* thread, its sender and its sender type.                                 *)

MaxMessages == 2    \* messages stored in one behaviour

ThreadIds == {"t1", "t2"}
ChatUsers == {"u1", "u2"}
SenderTypes == {"user", "ai"}
PR_USER == "user"
PR_ADMIN == "admin"
ParticipantRoles == {PR_USER, PR_ADMIN}
NoMessage == [thread_id |-> NoneStr]

Participant(t, u, role) == [thread_id |-> t, user_id |-> u, role |-> role]

\* ParticipantService.get_by_thread_and_user on one ParticipantService's
\* storage: the stored participants of that thread and user.
get_by_thread_and_user(ps, t, u) ==
    {p \in ps : p.thread_id = t /\ p.user_id = u}

\* ParticipantService.add_participant: an existing participant is returned
\* as it is, otherwise a new one is stored.
add_participant(ps, t, u, role) ==
    IF get_by_thread_and_user(ps, t, u) # {}
    THEN ps
    ELSE ps \cup {Participant(t, u, role)}

\* The participant service the sender check of create_message asks: the
\* one MessageService.__init__ constructs for itself.
SenderCheckStorage == msg_participants

\* MessageService.create_message: the message it stores, or NoMessage when
\* it returns None.
create_message(t, u, sender_type) ==
    IF t \notin threads
    THEN NoMessage
    ELSE IF /\ sender_type = "user"
            /\ get_by_thread_and_user(SenderCheckStorage, t, u) = {}
         THEN NoMessage
         ELSE [thread_id |-> t, sender_id |-> u, sender_type |-> sender_type]

InitChat ==
    /\ threads = {} /\ participants = {} /\ msg_participants = {}
    /\ messages = <<>> /\ chatq = IdleChat
    /\ CoreIdle /\ KanbanIdle /\ A2AIdle /\ SvcIdle

\* ThreadService.create_thread(creator_id, participant_ids = others).
CreateThread(t, creator, others) ==
    /\ t \notin threads
    /\ threads' = threads \cup {t}
    /\ participants' =
           participants \cup {Participant(t, creator, PR_ADMIN)}
               \cup {Participant(t, u, PR_USER) : u \in others \ {creator}}
    /\ chatq' = [op |-> "create_thread", thread_id |-> t, user_id |-> creator]
    /\ UNCHANGED <<msg_participants, messages>>
    /\ UNCHANGED <<coreVars, kanbanVars, a2aVars, svcVars>>

\* ThreadService.add_participant(thread_id, user_id, role).
AddParticipant(t, u, role) ==
    /\ participants' = add_participant(participants, t, u, role)
    /\ chatq' = [op |-> "add_participant", thread_id |-> t, user_id |-> u]
    /\ UNCHANGED <<threads, msg_participants, messages>>
    /\ UNCHANGED <<coreVars, kanbanVars, a2aVars, svcVars>>

\* ThreadService.remove_participant(thread_id, user_id).
RemoveParticipant(t, u) ==
    /\ participants' = participants \ get_by_thread_and_user(participants, t, u)
    /\ chatq' = [op |-> "remove_participant", thread_id |-> t, user_id |-> u]
    /\ UNCHANGED <<threads, msg_participants, messages>>
    /\ UNCHANGED <<coreVars, kanbanVars, a2aVars, svcVars>>

\* MessageService.create_message(thread_id, sender_id, content, sender_type).
CreateMessage(t, u, sender_type) ==
    /\ Len(messages) < MaxMessages
    /\ LET m == create_message(t, u, sender_type)
       IN /\ messages' = IF m = NoMessage THEN messages ELSE Append(messages, m)
          /\ chatq' = [op |-> "create_message", thread_id |-> t, user_id |-> u,
                       sender_type |-> sender_type, ret |-> m]
    /\ UNCHANGED <<threads, participants, msg_participants>>
    /\ UNCHANGED <<coreVars, kanbanVars, a2aVars, svcVars>>

NextChat ==
    \/ \E t \in ThreadIds, u \in ChatUsers, others \in SUBSET ChatUsers :
           CreateThread(t, u, others)
    \/ \E t \in ThreadIds, u \in ChatUsers, role \in ParticipantRoles :
           AddParticipant(t, u, role)
    \/ \E t \in ThreadIds, u \in ChatUsers : RemoveParticipant(t, u)
    \/ \E t \in ThreadIds, u \in ChatUsers, st \in SenderTypes :
           CreateMessage(t, u, st)

SpecChat == InitChat /\ [][NextChat]_vars

\* C11: when create_message(thread_id, u, content, sender_type = "user") is
\* called for a stored thread of which u is a participant (through
\* create_thread or add_participant), it stores and returns the message
\* instead of returning None.
C11_ParticipantCanPost ==
    (/\ chatq.op = "create_message"
     /\ chatq.sender_type = "user"
     /\ chatq.thread_id \in threads
     /\ get_by_thread_and_user(participants, chatq.thread_id, chatq.user_id) # {})
        => chatq.ret # NoMessage

---------------------------------------------------------------------------
(* SpecKanban: GlobalKanban's boards and its per-user cache of board ids.  *)
(* A board is its id and the set of the user ids of its members.           *)

NumBoards == 2      \* board ids range over 1..NumBoards

BoardIds == 1..NumBoards
KanbanUsers == {"u1", "u2"}

\* The boards whose members include the user.
MemberBoards(bs, u) == {bid \in DOMAIN bs : u \in bs[bid]}

\* dict item assignment d[k] = v.
SetItem(d, k, v) == [x \in DOMAIN d \cup {k} |-> IF x = k THEN v ELSE d[x]]

\* GlobalKanban._rebuild_user_boards_cache(user_id).
rebuild_user_boards_cache(cache, bs, u) == SetItem(cache, u, MemberBoards(bs, u))

\* GlobalKanban._update_user_boards_cache(board): the board's id is added
\* to the entry of each of its members, an absent entry starting empty.
update_user_boards_cache(cache, bid, ms) ==
    [u \in DOMAIN cache \cup ms |->
        IF u \in ms
        THEN (IF u \in DOMAIN cache THEN cache[u] ELSE {}) \cup {bid}
        ELSE cache[u]]

\* GlobalKanban(boards = ...): any mapping of boards, with an empty cache.
InitKanban ==
    /\ \E ids \in SUBSET BoardIds : boards \in [ids -> SUBSET KanbanUsers]
    /\ user_boards_cache = EmptyDict
    /\ kanbanq = IdleKanban
    /\ CoreIdle /\ ChatIdle /\ A2AIdle /\ SvcIdle

\* GlobalKanban.add_board(board); an id already stored raises ValueError.
AddBoard(bid, ms) ==
    /\ IF bid \in DOMAIN boards
       THEN /\ kanbanq' = [op |-> "add_board", raised |-> TRUE]
            /\ UNCHANGED <<boards, user_boards_cache>>
       ELSE /\ boards' = SetItem(boards, bid, ms)
            /\ user_boards_cache' =
                   update_user_boards_cache(user_boards_cache, bid, ms)
            /\ kanbanq' = [op |-> "add_board", raised |-> FALSE]
    /\ UNCHANGED <<coreVars, chatVars, a2aVars, svcVars>>

\* GlobalKanban.get_user_boards(user_id): the ids of the boards returned.
GetUserBoards(u) ==
    /\ user_boards_cache' =
           IF u \notin DOMAIN user_boards_cache
           THEN rebuild_user_boards_cache(user_boards_cache, boards, u)
           ELSE user_boards_cache
    /\ kanbanq' = [op |-> "get_user_boards", user_id |-> u,
                   ret |-> user_boards_cache'[u]]
    /\ UNCHANGED boards
    /\ UNCHANGED <<coreVars, chatVars, a2aVars, svcVars>>

NextKanban ==
    \/ \E bid \in BoardIds, ms \in SUBSET KanbanUsers : AddBoard(bid, ms)
    \/ \E u \in KanbanUsers : GetUserBoards(u)

SpecKanban == InitKanban /\ [][NextKanban]_vars

\* C12: get_user_boards(u) returns exactly the boards whose members include
\* u, and every entry of the per-user cache holds exactly those boards,
\* for any initial boards mapping and any interleaving of add_board and
\* get_user_boards.
C12_UserBoardsExact ==
    /\ \A u \in DOMAIN user_boards_cache :
           user_boards_cache[u] = MemberBoards(boards, u)
    /\ kanbanq.op = "get_user_boards" =>
           kanbanq.ret = MemberBoards(boards, kanbanq.user_id)

---------------------------------------------------------------------------
(* A2AService: incoming messages (process_message) and the execute_task    *)
(* coroutine.  A task is the record of its id, status, result and error;   *)
(* a result or an error is None, the empty dict or a non-empty dict.       *)

MaxTimeout == 2     \* execute_task's timeout ranges over 1..MaxTimeout ticks

TS_PENDING == "pending"
TS_IN_PROGRESS == "in_progress"
TS_COMPLETED == "completed"
TS_FAILED == "failed"
TS_CANCELLED == "cancelled"
TaskStatuses ==
    {TS_PENDING, TS_IN_PROGRESS, TS_COMPLETED, TS_FAILED, TS_CANCELLED}
TerminalStatuses == {TS_COMPLETED, TS_FAILED, TS_CANCELLED}

A2ATaskIds == {"k1", "k2"}
Agents == {"a1", "a2"}
EmptyDictStr == "{}"
Results == {NoneStr, EmptyDictStr, "r"}
Errors == {NoneStr, "e"}
\* Python truthiness of an Optional[Dict]: None and {} are falsy.
TruthyDict(x) == x \notin {NoneStr, EmptyDictStr}

Task(id, status, res, err) ==
    [task_id |-> id, status |-> status, result |-> res, error |-> err]
\* A message without a task (message.task is None).
NoTask == [task_id |-> NoneStr]
NoException == "None"

\* A variant of _handle_status_update that refuses to move a finished task.
handle_status_update_guarded(ts, t) ==
    IF t = NoTask
    THEN [tasks |-> ts, exc |-> "InvalidMessageError"]
    ELSE IF t.task_id \in DOMAIN ts /\ ts[t.task_id].status \notin TerminalStatuses
         THEN [tasks |-> [ts EXCEPT ![t.task_id] =
                    [status |-> t.status,
                     result |-> IF TruthyDict(t.result) THEN t.result ELSE @.result,
                     error |-> IF TruthyDict(t.error) THEN t.error ELSE @.error]],
               exc |-> NoException]
         ELSE [tasks |-> ts, exc |-> NoException]

\* A2AService._handle_status_update(message), t being message.task: the
\* active tasks afterwards and the exception it raises.
handle_status_update(ts, t) ==
    IF t = NoTask
    THEN [tasks |-> ts, exc |-> "InvalidMessageError"]
    ELSE IF t.task_id \in DOMAIN ts
         THEN [tasks |-> [ts EXCEPT ![t.task_id] =
                    [status |-> t.status,
                     result |-> IF TruthyDict(t.result) THEN t.result ELSE @.result,
                     error |-> IF TruthyDict(t.error) THEN t.error ELSE @.error]],
               exc |-> NoException]
         ELSE [tasks |-> ts, exc |-> NoException]

\* A2AService._handle_task(message): the task is stored under its id; with
\* no handler it fails, otherwise it is run and completes with the
\* handler's result or fails with the handler's exception.
HandlerOutcomes == {"none", "returns", "raises"}
handle_task(ts, t, outcome) ==
    SetItem(ts, t.task_id,
        CASE outcome = "none" ->
                 [status |-> TS_FAILED, result |-> t.result, error |-> "e"]
          [] outcome = "returns" ->
                 [status |-> TS_COMPLETED, result |-> "r", error |-> t.error]
          [] outcome = "raises" ->
                 [status |-> TS_FAILED, result |-> t.result, error |-> "e"])

\* process_message catches and logs whatever a message handler raises.
process_message_raises(handlerExc) == NoException

\* process_message(message) for a STATUS_UPDATE message.
ProcessStatusUpdate(t) ==
    /\ LET h == handle_status_update(active_tasks, t)
       IN /\ active_tasks' = h.tasks
          /\ a2aq' = [op |-> "status_update", task |-> t, before |-> active_tasks,
                      logged |-> h.exc, raised |-> process_message_raises(h.exc)]
    /\ replies' =
           IF /\ exec.pc = "waiting"
              /\ t # NoTask
              /\ t.task_id = exec.task.task_id
           THEN replies \cup {[status |-> t.status, at |-> exec.elapsed]}
           ELSE replies
    /\ UNCHANGED <<known_agents, exec>>
    /\ UNCHANGED <<coreVars, chatVars, kanbanVars, svcVars>>

\* process_message(message) for a TASK message carrying a new task.
ProcessTask(id, outcome) ==
    /\ active_tasks' =
           handle_task(active_tasks, Task(id, TS_PENDING, NoneStr, NoneStr), outcome)
    /\ a2aq' = [op |-> "task", task_id |-> id, raised |-> NoException]
    /\ UNCHANGED <<known_agents, exec, replies>>
    /\ UNCHANGED <<coreVars, chatVars, kanbanVars, svcVars>>

StatusUpdateTasks ==
    {NoTask} \cup
    {Task(id, st, res, err) :
        id \in A2ATaskIds, st \in TaskStatuses, res \in Results, err \in Errors}

InitA2A ==
    /\ active_tasks = EmptyDict
    /\ known_agents = {}
    /\ exec = IdleExec /\ replies = {} /\ a2aq = IdleA2A
    /\ CoreIdle /\ ChatIdle /\ KanbanIdle /\ SvcIdle

NextA2A ==
    \/ \E t \in StatusUpdateTasks : ProcessStatusUpdate(t)
    \/ \E id \in A2ATaskIds, outcome \in HandlerOutcomes : ProcessTask(id, outcome)

SpecA2A == InitA2A /\ [][NextA2A]_vars

---------------------------------------------------------------------------
(* SpecExecute: the execute_task coroutine next to the messages the        *)
(* service receives meanwhile.  Time is counted in polling ticks (one      *)
(* asyncio.sleep(0.1) each).  send_message builds and logs the message     *)
(* and returns it: nothing is transmitted and the new task is referenced   *)
(* by the coroutine's local variable only.                                 *)

Timeouts == 1..MaxTimeout

\* execute_task up to the polling loop: AgentNotFoundError for an unknown
\* recipient, otherwise a new PENDING task and the TASK message.
ExecuteTask(recipient, timeout, id) ==
    /\ exec.pc = "idle"
    /\ id \notin DOMAIN active_tasks
    /\ exec' = IF recipient \notin known_agents
               THEN [pc |-> "raised", exc |-> "AgentNotFoundError",
                     recipient |-> recipient, timeout |-> timeout,
                     task |-> NoTask, elapsed |-> 0]
               ELSE [pc |-> "waiting", exc |-> NoException,
                     recipient |-> recipient, timeout |-> timeout,
                     task |-> Task(id, TS_PENDING, NoneStr, NoneStr),
                     elapsed |-> 0]
    /\ UNCHANGED <<active_tasks, known_agents, replies, a2aq>>
    /\ UNCHANGED <<coreVars, chatVars, kanbanVars, svcVars>>

\* One iteration of execute_task's polling loop.
PollExecute ==
    /\ exec.pc = "waiting"
    /\ exec' =
           IF exec.elapsed > exec.timeout
           THEN [exec EXCEPT !.pc = "raised", !.exc = "TimeoutError",
                             !.task.status = TS_FAILED, !.task.error = "e"]
           ELSE IF exec.task.status \in TerminalStatuses
                THEN [exec EXCEPT !.pc = "returned"]
                ELSE [exec EXCEPT !.elapsed = @ + 1]
    /\ UNCHANGED <<active_tasks, known_agents, replies, a2aq>>
    /\ UNCHANGED <<coreVars, chatVars, kanbanVars, svcVars>>

\* The status updates a recipient sends back for a task.
RecipientUpdates ==
    {Task(id, TS_IN_PROGRESS, NoneStr, NoneStr) : id \in A2ATaskIds}
        \cup {Task(id, TS_COMPLETED, "r", NoneStr) : id \in A2ATaskIds}

InitExecute ==
    /\ active_tasks = EmptyDict
    /\ known_agents \in SUBSET Agents
    /\ exec = IdleExec /\ replies = {} /\ a2aq = IdleA2A
    /\ CoreIdle /\ ChatIdle /\ KanbanIdle /\ SvcIdle

NextExecute ==
    \/ \E a \in Agents, timeout \in Timeouts, id \in A2ATaskIds :
           ExecuteTask(a, timeout, id)
    \/ PollExecute
    \/ \E t \in RecipientUpdates : ProcessStatusUpdate(t)
    \/ \E id \in A2ATaskIds : ProcessTask(id, "returns")

SpecExecute == InitExecute /\ [][NextExecute]_vars

\* The recipient finished in time: a COMPLETED status update for the
\* awaited task reached the service within the timeout.
RecipientFinishedInTime ==
    \E r \in replies : r.status = TS_COMPLETED /\ r.at <= exec.timeout

\* C13: execute_task returns the completed task (status COMPLETED, with
\* its result) for a recipient that finishes; it raises the timeout error
\* only when the recipient did not finish within `timeout`, and
\* AgentNotFoundError only when the recipient is not a known agent.
C13_ExecuteTaskCompletes ==
    /\ exec.pc = "returned" =>
           exec.task.status = TS_COMPLETED /\ exec.task.result = "r"
    /\ (exec.pc = "raised" /\ exec.exc = "TimeoutError") =>
           ~RecipientFinishedInTime
    /\ (exec.pc = "raised" /\ exec.exc = "AgentNotFoundError") =>
           exec.recipient \notin known_agents

---------------------------------------------------------------------------
(* SpecService: BaseService's in-memory CRUD.  An item is the record of    *)
(* its id and one other field, val; a replacement item handed to update    *)
(* is a new object.                                                        *)

ItemIds == {"i1", "i2"}
ItemVals == {"x", "y"}
Items == [id : ItemIds, val : ItemVals]
NoItem == [id |-> NoneStr]

\* The dicts update is called with: one field of the model, or a key the
\* model does not have.
UpdateDicts ==
    [key : {"val"}, value : ItemVals] \cup [key : {"id"}, value : ItemIds]
        \cup [key : {"unknown"}, value : {"x"}]

\* The keyword filters list and count are called with.
NoFilter == [key |-> NoneStr, value |-> NoneStr]
Filters ==
    {NoFilter} \cup [key : {"val"}, value : ItemVals]
        \cup [key : {"id"}, value : ItemIds]

\* hasattr(item, key) and setattr(item, key, value).
HasAttr(key) == key \in {"id", "val"}
SetAttr(item, key, value) ==
    IF key = "id" THEN [item EXCEPT !.id = value]
    ELSE [item EXCEPT !.val = value]

\* BaseService.list(**filters): the keys of the items returned.
list(st, f) ==
    {k \in DOMAIN st :
        f = NoFilter \/ (IF f.key = "id" THEN st[k].id ELSE st[k].val) = f.value}

\* BaseService.count(**filters).
count(st, f) == Cardinality(list(st, f))

\* BaseService.get(id).
get(st, k) == IF k \in DOMAIN st THEN st[k] ELSE NoItem

\* BaseService.update(id, data) with a dict.
update_dict(st, k, d) ==
    IF k \notin DOMAIN st
    THEN [storage |-> st, ret |-> NoItem]
    ELSE LET item == IF HasAttr(d.key) THEN SetAttr(st[k], d.key, d.value)
                     ELSE st[k]
         IN  [storage |-> [st EXCEPT ![k] = item], ret |-> item]

\* BaseService.update(id, data) with a whole replacement item.
update_item(st, k, data) ==
    IF k \notin DOMAIN st
    THEN [storage |-> st, ret |-> NoItem]
    ELSE [storage |-> [st EXCEPT ![k] = data], ret |-> data]

\* BaseService.delete(id).
delete(st, k) ==
    IF k \in DOMAIN st
    THEN [storage |-> [x \in DOMAIN st \ {k} |-> st[x]], ret |-> TRUE]
    ELSE [storage |-> st, ret |-> FALSE]

InitService ==
    /\ storage = EmptyDict /\ svcq = IdleSvc
    /\ CoreIdle /\ ChatIdle /\ KanbanIdle /\ A2AIdle

Called(op, k, r) ==
    /\ storage' = r.storage
    /\ svcq' = [op |-> op, id |-> k, ret |-> r.ret, before |-> storage]
    /\ UNCHANGED <<coreVars, chatVars, kanbanVars, a2aVars>>

\* BaseService.create(item).
Create(item) ==
    Called("create", item.id, [storage |-> SetItem(storage, item.id, item),
                               ret |-> item])

UpdateWithDict(k, d) == Called("update", k, update_dict(storage, k, d))

UpdateWithItem(k, data) == Called("update", k, update_item(storage, k, data))

Delete(k) == Called("delete", k, delete(storage, k))

Get(k) == Called("get", k, [storage |-> storage, ret |-> get(storage, k)])

\* BaseService.count(**filters) next to BaseService.list(**filters).
Count(f) ==
    /\ svcq' = [op |-> "count", filters |-> f, ret |-> count(storage, f),
                listed |-> list(storage, f), before |-> storage]
    /\ UNCHANGED storage
    /\ UNCHANGED <<coreVars, chatVars, kanbanVars, a2aVars>>

NextService ==
    \/ \E item \in Items : Create(item)
    \/ \E k \in ItemIds, d \in UpdateDicts : UpdateWithDict(k, d)
    \/ \E k \in ItemIds, data \in Items : UpdateWithItem(k, data)
    \/ \E k \in ItemIds : Delete(k)
    \/ \E k \in ItemIds : Get(k)
    \/ \E f \in Filters : Count(f)

SpecService == InitService /\ [][NextService]_vars

\* C16: after any sequence of create, update (with a dict or with a whole
\* replacement item) and delete every stored entry satisfies
\* storage[k].id = k, so get(k) never returns an item of another id;
\* update on an absent id returns None and delete on an absent id returns
\* False, both leaving storage unchanged; count(filters) equals the length
\* of list(filters).
C16_StorageKeyedById ==
    /\ \A k \in DOMAIN storage : storage[k].id = k
    /\ (svcq.op = "get" /\ svcq.ret # NoItem) => svcq.ret.id = svcq.id
    /\ (svcq.op = "update" /\ svcq.id \notin DOMAIN svcq.before) =>
           svcq.ret = NoItem /\ storage = svcq.before
    /\ (svcq.op = "delete" /\ svcq.id \notin DOMAIN svcq.before) =>
           svcq.ret = FALSE /\ storage = svcq.before
    /\ svcq.op = "count" => svcq.ret = Cardinality(svcq.listed)

===========================================================================
